---- MODULE Spec2Model ----
(***************************************************************************)
(* trmon: passive reconstruction of HTTP transactions from TCP traffic.    *)
(*                                                                         *)
(* The model follows src/main.go: the Driver (main), the stream factory    *)
(* (httpStreamFactory.New, LogPacketSize) and the two reader goroutines    *)
(* (TCPStream.runOut, TCPStream.runIn).  The calls into gopacket's         *)
(* tcpassembly/tcpreader and into net/http are modelled at their call      *)
(* sites by what the callee does to the program's state:                   *)
(*   - the assembler keeps one stream per directed flow, asks the factory  *)
(*     for a stream when a SYN or payload arrives for an unknown directed  *)
(*     flow, and forgets the stream on FIN or FlushAll;                    *)
(*   - ReaderStream.Reassembled hands a chunk to the reader and returns    *)
(*     only when the reader asks for bytes beyond that chunk ("you MUST    *)
(*     read ALL BYTES", cf. the comments at main.go:73 and main.go:197);   *)
(*   - DiscardBytesToFirstError reads until the reader reports an error,   *)
(*     which for a ReaderStream is end-of-input.                           *)
(* Bytes are abstracted to tokens:                                         *)
(*   "G"  a complete GET request      "H"  a complete HEAD request         *)
(*   "g"  a request without its end   "e"  the end completing a "g"        *)
(*   "2"  a response head, status 200, announcing a one-token body         *)
(*   "4"  a response head, status 404, without body                        *)
(*   "b"  a body token                "x"  bytes that are no HTTP message  *)
(* Three specifications run the same program on different captures:        *)
(*   Spec            two connections between two hosts;                    *)
(*   SpecAccounting  adds a loopback connection and a packet whose header  *)
(*                   length fields exceed its total length;                *)
(*   SpecFlood       adds a segment of QueueCap pipelined requests.        *)
(***************************************************************************)
EXTENDS Integers, Sequences, FiniteSets, TLC

VARIABLES
    pcMain,       \* position of main()
    packetsOpen,  \* the packets channel is not yet closed / set to nil
    nPackets,     \* packets taken from the capture source so far
    timeout,      \* "nil" or "armed": the drain timer channel of main()
    cur,          \* the reassembly main is handing to a stream
    pool,         \* stream ids the assembler holds (its connection pool)
    streams,      \* the TCPStream objects, by id, with their goroutine
    bidiStreams,  \* httpStreamFactory.bidiStreams
    factoryClosed,\* httpStreamFactory.closed
    log,          \* the calls made on the storage collaborator, in order
    storeErr,     \* "Error storing ..." was written to the log output
    logged,       \* streams that wrote "Error reading stream"
    fed           \* ids of the packets taken from the source, in order

vars == <<pcMain, packetsOpen, nPackets, timeout, cur, pool, streams,
          bidiStreams, factoryClosed, log, storeErr, logged, fed>>

(***************************************************************************)
(* Bounds and program constants                                            *)
(***************************************************************************)
MaxPackets == 4

QueueCap == 100

(***************************************************************************)
(* Connection identity                                                     *)
(***************************************************************************)
RECURSIVE Xor(_, _)
Xor(a, b) ==
    IF a = 0 /\ b = 0 THEN 0
    ELSE (((a % 2) + (b % 2)) % 2) + 2 * Xor(a \div 2, b \div 2)

\* gopacket's Flow.FastHash: a hash of the two endpoints that is the same
\* for a flow and its reverse (sum of the endpoint hashes).
EndpointHash(e) == 7 * e + 3

FastHash(flow) == EndpointHash(flow.src) + EndpointHash(flow.dst)

\* An identity that hashes the source port alone.
DirectedKey(netFlow, tcpFlow) ==
    Xor(FastHash(netFlow), EndpointHash(tcpFlow.src))

\* key := netFlow.FastHash() ^ tcpFlow.FastHash()
Key(netFlow, tcpFlow) == Xor(FastHash(netFlow), FastHash(tcpFlow))

Reverse(flow) == [src |-> flow.dst, dst |-> flow.src]

(***************************************************************************)
(* The capture source: the packets it can produce, all of them in scope    *)
(* (storage.PacketInScope) and in order within their direction             *)
(***************************************************************************)
NetAB == [src |-> 1, dst |-> 2]
Tcp1 == [src |-> 5, dst |-> 8]
Tcp2 == [src |-> 6, dst |-> 8]

Pkt(id, net, tcp, syn, fin, payload) ==
    [id |-> id, net |-> net, tcp |-> tcp, syn |-> syn, fin |-> fin,
     payload |-> payload,
     length |-> 40 + 10 * Len(payload), ihl |-> 5, dataOffset |-> 5]

PacketMenu ==
    { Pkt("syn1",  NetAB, Tcp1, TRUE, FALSE, <<>>),
      Pkt("syn1r", Reverse(NetAB), Reverse(Tcp1), TRUE, FALSE, <<>>),
      Pkt("req1",  NetAB, Tcp1, FALSE, FALSE, <<"G", "H">>),
      Pkt("rsp1",  Reverse(NetAB), Reverse(Tcp1), FALSE, FALSE, <<"2", "b">>),
      Pkt("rsp2",  Reverse(NetAB), Reverse(Tcp1), FALSE, FALSE,
                   <<"2", "b", "2">>),
      Pkt("bad1",  NetAB, Tcp1, FALSE, FALSE, <<"x", "G">>),
      Pkt("part1", NetAB, Tcp1, FALSE, FALSE, <<"g">>),
      Pkt("fin1",  NetAB, Tcp1, FALSE, TRUE, <<>>),
      Pkt("fin1r", Reverse(NetAB), Reverse(Tcp1), FALSE, TRUE, <<>>),
      Pkt("req2",  NetAB, Tcp2, FALSE, FALSE, <<"G", "H">>) }

(***************************************************************************)
(* Parsing                                                                 *)
(***************************************************************************)
NoReq == [m |-> "nil", id |-> 0 - 1]

Drop(s, n) == SubSeq(s, n + 1, Len(s))

\* A parser that takes a request without its end for a complete one.
LaxReadRequest(buf, eof) ==
    IF buf = <<>> THEN
        [r |-> IF eof THEN "eof" ELSE "more", n |-> 0, m |-> "nil"]
    ELSE IF buf[1] \in {"G", "g"} THEN [r |-> "ok", n |-> 1, m |-> "GET"]
    ELSE IF buf[1] = "H" THEN [r |-> "ok", n |-> 1, m |-> "HEAD"]
    ELSE [r |-> "err", n |-> 1, m |-> "nil"]

\* A parser that reports end-of-input on an empty stream as a malformed
\* message.
StrictReadRequest(buf, eof) ==
    IF buf = <<>> THEN
        [r |-> IF eof THEN "err" ELSE "more", n |-> 0, m |-> "nil"]
    ELSE IF buf[1] = "G" THEN [r |-> "ok", n |-> 1, m |-> "GET"]
    ELSE IF buf[1] = "H" THEN [r |-> "ok", n |-> 1, m |-> "HEAD"]
    ELSE [r |-> "err", n |-> 1, m |-> "nil"]

\* http.ReadRequest on the bytes the reader can get: r is "ok", "eof"
\* (io.EOF), "err" (any other error) or "more" (the read blocks).
ReadRequest(buf, eof) ==
    IF buf = <<>> THEN
        [r |-> IF eof THEN "eof" ELSE "more", n |-> 0, m |-> "nil"]
    ELSE IF buf[1] = "G" THEN [r |-> "ok", n |-> 1, m |-> "GET"]
    ELSE IF buf[1] = "H" THEN [r |-> "ok", n |-> 1, m |-> "HEAD"]
    ELSE IF buf[1] = "g" THEN
        IF Len(buf) >= 2 THEN
            IF buf[2] = "e" THEN [r |-> "ok", n |-> 2, m |-> "GET"]
            ELSE [r |-> "err", n |-> 1, m |-> "nil"]
        ELSE [r |-> IF eof THEN "err" ELSE "more", n |-> 0, m |-> "nil"]
    ELSE [r |-> "err", n |-> 1, m |-> "nil"]

\* http.ReadResponse(buf, req): the head of the response.
ReadResponse(buf, eof) ==
    IF buf = <<>> THEN
        [r |-> IF eof THEN "eof" ELSE "more", n |-> 0, status |-> 0]
    ELSE IF buf[1] = "2" THEN [r |-> "ok", n |-> 1, status |-> 200]
    ELSE IF buf[1] = "4" THEN [r |-> "ok", n |-> 1, status |-> 404]
    ELSE [r |-> "err", n |-> 1, status |-> 0]

\* The length of resp.Body: a response to HEAD has no body whatever its
\* head announces.
BodyLen(status, req) ==
    IF req.m = "HEAD" THEN 0 ELSE IF status = 200 THEN 1 ELSE 0

(***************************************************************************)
(* Initial state                                                           *)
(***************************************************************************)
NoCur == [sid |-> 0, payload |-> <<>>, fin |-> FALSE]

Init ==
    /\ pcMain = "select"
    /\ packetsOpen = TRUE
    /\ nPackets = 0
    /\ timeout = "nil"
    /\ cur = NoCur
    /\ pool = {}
    /\ streams = <<>>
    /\ bidiStreams = <<>>
    /\ factoryClosed = FALSE
    /\ log = <<>>
    /\ storeErr = FALSE
    /\ logged = {}
    /\ fed = <<>>

Alive == pcMain \notin {"exited", "panic"}

(***************************************************************************)
(* Storage notifications                                                   *)
(***************************************************************************)
Note(op, key, n, req, status, by) ==
    [op |-> op, key |-> key, n |-> n, req |-> req, status |-> status,
     by |-> by]

\* A byte-count call: made by main (by = 0), for packet p.
PayloadNote(op, key, n, p) ==
    [op |-> op, key |-> key, n |-> n, req |-> NoReq, status |-> 0,
     by |-> 0, pkt |-> p.id]

(***************************************************************************)
(* httpStreamFactory.LogPacketSize                                         *)
(***************************************************************************)
\* uint32(ipv4.Length - uint16(ipv4.IHL)*4 - uint16(tcp.DataOffset)*4)
PayloadLength(p) == (p.length - p.ihl * 4 - p.dataOffset * 4) % (2 ^ 16)

\* bds == nil || bds.in == nil || bds.out == nil
NotEstablished(key) ==
    \/ key \notin DOMAIN bidiStreams
    \/ bidiStreams[key].in = 0
    \/ bidiStreams[key].out = 0

\* The storage call LogPacketSize makes for packet p: none, or one.
LogPacketSize(p) ==
    LET key == Key(p.net, p.tcp) IN
    IF NotEstablished(key) THEN <<>>
    ELSE IF streams[bidiStreams[key].in].net = p.net
         THEN <<PayloadNote("IncomingPayload", key, PayloadLength(p), p)>>
         ELSE <<PayloadNote("OutgoingPayload", key, PayloadLength(p), p)>>

(***************************************************************************)
(* httpStreamFactory.New                                                   *)
(***************************************************************************)
NewStream(p, key, role) ==
    [net |-> p.net, tcp |-> p.tcp, key |-> key, role |-> role,
     buf |-> <<>>, got |-> <<>>, eof |-> FALSE, inRead |-> FALSE,
     closed |-> FALSE, reqInProgress |-> NoReq,
     pc |-> IF role = "out" THEN "read" ELSE "peek",
     reqID |-> 0, req |-> NoReq, status |-> 0]

\* bds == nil: the first stream of an identity becomes its outbound stream.
IsFirstOfKey(key) == key \notin DOMAIN bidiStreams

\* The factory is asked for the stream of packet p's directed flow; lg is
\* the storage log so far, ok whether OpenTCPConnection succeeds.
New(p, lg, ok) ==
    LET key == Key(p.net, p.tcp)
        sid == Len(streams) + 1
    IN  /\ IF IsFirstOfKey(key)
           THEN /\ bidiStreams' =
                      [k \in DOMAIN bidiStreams \cup {key} |->
                          IF k = key
                          THEN [out |-> sid, in |-> 0, requests |-> <<>>,
                                pushed |-> <<>>]
                          ELSE bidiStreams[k]]
                /\ streams' = Append(streams, NewStream(p, key, "out"))
                /\ log' = lg
                /\ ok
                /\ UNCHANGED storeErr
           ELSE /\ bidiStreams' = [bidiStreams EXCEPT ![key].in = sid]
                /\ streams' = Append(streams, NewStream(p, key, "in"))
                /\ log' = Append(lg, Note("OpenConnection", key, 0, NoReq, 0, 0))
                /\ storeErr' = (storeErr \/ ~ok)
        /\ pool' = pool \cup {sid}
        /\ cur' = [sid |-> sid, payload |-> p.payload, fin |-> p.fin]
        /\ pcMain' = "deliver"

(***************************************************************************)
(* main: the capture loop                                                  *)
(***************************************************************************)
\* The assembler's stream for the directed flow of p, if it holds one.
Known(p) == {s \in pool : streams[s].net = p.net /\ streams[s].tcp = p.tcp}

\* Packets the assembler drops without touching a stream: an empty segment
\* that is neither SYN nor FIN, or an empty one of an unknown flow.
Ignored(p) ==
    \/ ~p.syn /\ ~p.fin /\ p.payload = <<>>
    \/ Known(p) = {} /\ ~p.syn /\ p.payload = <<>>

\* case packet, ok := <-packets (ok), for a capture source that produces
\* the packets of menu: LogPacketSize, then
\* assembler.AssembleWithTimestamp up to its first blocking call.
Feed(menu) ==
    /\ pcMain = "select"
    /\ packetsOpen
    /\ nPackets < MaxPackets
    /\ \E p \in menu, ok \in BOOLEAN :
        LET acct == LogPacketSize(p)
            lg == log \o acct
        IN  /\ nPackets' = nPackets + 1
            /\ fed' = Append(fed, p.id)
            /\ UNCHANGED <<packetsOpen, timeout, factoryClosed, logged>>
            /\ IF acct # <<>> /\ ~ok
               THEN \* panic(err)
                    /\ pcMain' = "panic"
                    /\ log' = lg
                    /\ UNCHANGED <<cur, pool, streams, bidiStreams, storeErr>>
               ELSE IF Ignored(p)
               THEN /\ ok
                    /\ log' = lg
                    /\ UNCHANGED <<pcMain, cur, pool, streams, bidiStreams,
                                   storeErr>>
               ELSE IF Known(p) # {}
               THEN /\ ok
                    /\ log' = lg
                    /\ cur' = [sid |-> CHOOSE s \in Known(p) : TRUE,
                               payload |-> p.payload, fin |-> p.fin]
                    /\ pcMain' = "deliver"
                    /\ UNCHANGED <<pool, streams, bidiStreams, storeErr>>
               ELSE \E okOpen \in BOOLEAN :
                        /\ ok
                        /\ New(p, lg, okOpen)

MainPacket == Feed(PacketMenu)

\* ReaderStream.Reassembled: r.reassembled <- reassembly
MainDeliver ==
    /\ pcMain = "deliver"
    /\ streams[cur.sid].inRead
    /\ streams' = [streams EXCEPT
                     ![cur.sid].buf = @ \o cur.payload,
                     ![cur.sid].got = @ \o cur.payload,
                     ![cur.sid].inRead = (cur.payload = <<>>)]
    /\ pcMain' = "waitdone"
    /\ UNCHANGED <<packetsOpen, nPackets, timeout, cur, pool,
                   bidiStreams, factoryClosed, log, storeErr, logged, fed>>

\* A Reassembled that returns without waiting for the reader.
ReturnAtOnce ==
    /\ pcMain = "waitdone"
    /\ IF cur.fin
       THEN /\ streams' = [streams EXCEPT ![cur.sid].eof = TRUE,
                                          ![cur.sid].inRead = FALSE]
            /\ pool' = pool \ {cur.sid}
       ELSE UNCHANGED <<streams, pool>>
    /\ pcMain' = "select"
    /\ cur' = NoCur
    /\ UNCHANGED <<packetsOpen, nPackets, timeout, bidiStreams,
                   factoryClosed, log, storeErr, logged, fed>>

\* ReaderStream.Reassembled: <-r.done, then on FIN ReassemblyComplete and
\* the stream leaves the pool.
MainWaitDone ==
    /\ pcMain = "waitdone"
    /\ streams[cur.sid].inRead
    /\ IF cur.fin
       THEN /\ streams' = [streams EXCEPT ![cur.sid].eof = TRUE,
                                          ![cur.sid].inRead = FALSE]
            /\ pool' = pool \ {cur.sid}
       ELSE UNCHANGED <<streams, pool>>
    /\ pcMain' = "select"
    /\ cur' = NoCur
    /\ UNCHANGED <<packetsOpen, nPackets, timeout, bidiStreams,
                   factoryClosed, log, storeErr, logged, fed>>

\* case packet, ok := <-packets (!ok): the capture is exhausted.
MainPacketsClosed ==
    /\ pcMain = "select"
    /\ packetsOpen
    /\ packetsOpen' = FALSE
    /\ timeout' = "armed"
    /\ UNCHANGED <<pcMain, nPackets, cur, pool, streams, bidiStreams,
                   factoryClosed, log, storeErr, logged, fed>>

\* case err := <-cmd_done: the external command has ended; like an
\* interrupt this only starts the drain timer.
MainCmdDone ==
    /\ pcMain = "select"
    /\ timeout' = "armed"
    /\ UNCHANGED <<pcMain, packetsOpen, nPackets, cur, pool, streams,
                   bidiStreams, factoryClosed, log, storeErr, logged, fed>>

\* case <-ctrlc
MainCtrlC ==
    /\ pcMain = "select"
    /\ timeout' = "armed"
    /\ UNCHANGED <<pcMain, packetsOpen, nPackets, cur, pool, streams,
                   bidiStreams, factoryClosed, log, storeErr, logged, fed>>

\* A loop that is left without the timer having been started.
BreakLoopUnarmed ==
    /\ pcMain = "select"
    /\ pcMain' = "markclosed"
    /\ UNCHANGED <<packetsOpen, nPackets, timeout, cur, pool, streams,
                   bidiStreams, factoryClosed, log, storeErr, logged, fed>>

\* case <-timeout: break loop
MainTimeout ==
    /\ pcMain = "select"
    /\ timeout = "armed"
    /\ pcMain' = "markclosed"
    /\ UNCHANGED <<packetsOpen, nPackets, timeout, cur, pool, streams,
                   bidiStreams, factoryClosed, log, storeErr, logged, fed>>

(***************************************************************************)
(* main: shutdown                                                          *)
(***************************************************************************)
Attached == {bidiStreams[k].in : k \in DOMAIN bidiStreams}
                \cup {bidiStreams[k].out : k \in DOMAIN bidiStreams}

MainMarkClosed ==
    /\ pcMain = "markclosed"
    /\ factoryClosed' = TRUE
    /\ streams' = [s \in DOMAIN streams |->
                      IF s \in Attached
                      THEN [streams[s] EXCEPT !.closed = TRUE]
                      ELSE streams[s]]
    /\ pcMain' = "flush"
    /\ UNCHANGED <<packetsOpen, nPackets, timeout, cur, pool,
                   bidiStreams, log, storeErr, logged, fed>>

\* assembler.FlushAll(): ReassemblyComplete on every stream still held.
MainFlushAll ==
    /\ pcMain = "flush"
    /\ streams' = [s \in DOMAIN streams |->
                      IF s \in pool
                      THEN [streams[s] EXCEPT !.eof = TRUE, !.inRead = FALSE]
                      ELSE streams[s]]
    /\ pool' = {}
    /\ pcMain' = "storageClose"
    /\ UNCHANGED <<packetsOpen, nPackets, timeout, cur, bidiStreams,
                   factoryClosed, log, storeErr, logged, fed>>

MainStorageClose ==
    /\ pcMain = "storageClose"
    /\ pcMain' = "report"
    /\ UNCHANGED <<packetsOpen, nPackets, timeout, cur, pool, streams,
                   bidiStreams, factoryClosed, log, storeErr, logged, fed>>

\* NewReporting, reporting.Report(), os.Exit(0)
MainReport ==
    /\ pcMain = "report"
    /\ pcMain' = "exited"
    /\ UNCHANGED <<packetsOpen, nPackets, timeout, cur, pool, streams,
                   bidiStreams, factoryClosed, log, storeErr, logged, fed>>

(***************************************************************************)
(* TCPStream.runOut                                                        *)
(***************************************************************************)
\* A channel without capacity limit.
ChanNeverFull(q) == FALSE

\* The buffered channel bds.requests holds QueueCap requests; a send on it
\* blocks while it is full.
ChanFull(q) == Len(q) >= QueueCap

\* bds.requests <- req
Enqueue(q, req) == Append(q, req)

\* req, err := http.ReadRequest(buf) and the branch taken on its result.
OutRead(s) ==
    LET st == streams[s]
        res == ReadRequest(st.buf, st.eof)
    IN  /\ Alive
        /\ st.role = "out"
        /\ st.pc = "read"
        /\ ~st.inRead
        /\ UNCHANGED <<pcMain, packetsOpen, nPackets, timeout, cur,
                       pool, bidiStreams, factoryClosed, logged, fed>>
        /\ IF res.r = "more"
           THEN /\ streams' = [streams EXCEPT ![s].inRead = TRUE]
                /\ UNCHANGED <<log, storeErr>>
           ELSE IF res.r = "eof"
           THEN \E ok \in BOOLEAN :
                    /\ log' = Append(log, Note("CloseConnection", st.key, 0,
                                               NoReq, 0, s))
                    /\ storeErr' = (storeErr \/ ~ok)
                    /\ streams' = [streams EXCEPT ![s].pc = "done"]
           ELSE IF res.r = "err"
           THEN /\ streams' = [streams EXCEPT ![s].pc = "discard",
                                              ![s].buf = Drop(@, res.n)]
                /\ UNCHANGED <<log, storeErr>>
           ELSE /\ streams' = [streams EXCEPT
                                 ![s].pc = "push",
                                 ![s].buf = Drop(@, res.n),
                                 ![s].req = [m |-> res.m, id |-> st.reqID]]
                /\ UNCHANGED <<log, storeErr>>

\* tcpreader.DiscardBytesToFirstError(buf), then the log line.
OutDiscard(s) ==
    LET st == streams[s] IN
    /\ Alive
    /\ st.role = "out"
    /\ st.pc = "discard"
    /\ ~st.inRead
    /\ IF st.eof
       THEN /\ streams' = [streams EXCEPT ![s].buf = <<>>, ![s].pc = "read"]
            /\ logged' = IF st.closed THEN logged ELSE logged \cup {s}
       ELSE /\ streams' = [streams EXCEPT ![s].buf = <<>>,
                                          ![s].inRead = TRUE]
            /\ UNCHANGED logged
    /\ UNCHANGED <<pcMain, packetsOpen, nPackets, timeout, cur, pool,
                   bidiStreams, factoryClosed, log, storeErr, fed>>

\* bds.requests <- req: blocks while the queue is full.
OutPush(s) ==
    LET st == streams[s] IN
    /\ Alive
    /\ st.role = "out"
    /\ st.pc = "push"
    /\ ~ChanFull(bidiStreams[st.key].requests)
    /\ bidiStreams' = [bidiStreams EXCEPT
                         ![st.key].requests = Enqueue(@, st.req),
                         ![st.key].pushed = Append(@, st.req)]
    /\ streams' = [streams EXCEPT ![s].pc = "sent"]
    /\ UNCHANGED <<pcMain, packetsOpen, nPackets, timeout, cur, pool,
                   factoryClosed, log, storeErr, logged, fed>>

\* h.storage.SentRequest(h.bidikey, reqID, ...); reqID++
OutSent(s) ==
    LET st == streams[s] IN
    /\ Alive
    /\ st.role = "out"
    /\ st.pc = "sent"
    /\ \E ok \in BOOLEAN :
        /\ log' = Append(log, Note("RequestSent", st.key, st.reqID, st.req,
                                   0, s))
        /\ storeErr' = (storeErr \/ ~ok)
    /\ streams' = [streams EXCEPT ![s].pc = "read",
                                  ![s].reqID = @ + 1,
                                  ![s].req = NoReq]
    /\ UNCHANGED <<pcMain, packetsOpen, nPackets, timeout, cur, pool,
                   bidiStreams, factoryClosed, logged, fed>>

(***************************************************************************)
(* TCPStream.runIn                                                         *)
(***************************************************************************)
\* A queue that yields the request pushed last.
QueueLast(q) == q[Len(q)]

\* A receive that leaves the request on the queue.
QueueKeep(q) == q

\* The request a receive on bds.requests yields, and the queue it leaves.
QueueHead(q) == Head(q)

QueueRest(q) == Tail(q)

\* _, err := buf.Peek(1)
InPeek(s) ==
    LET st == streams[s] IN
    /\ Alive
    /\ st.role = "in"
    /\ st.pc = "peek"
    /\ ~st.inRead
    /\ streams' = IF st.buf # <<>>
                  THEN [streams EXCEPT ![s].pc = "getreq"]
                  ELSE IF st.eof
                  THEN [streams EXCEPT ![s].pc = "done"]
                  ELSE [streams EXCEPT ![s].inRead = TRUE]
    /\ UNCHANGED <<pcMain, packetsOpen, nPackets, timeout, cur, pool,
                   bidiStreams, factoryClosed, log, storeErr, logged, fed>>

\* req := h.reqInProgress; if req == nil { req = <-bds.requests; ... }
InGetReq(s) ==
    LET st == streams[s]
        q == bidiStreams[st.key].requests
    IN  /\ Alive
        /\ st.role = "in"
        /\ st.pc = "getreq"
        /\ IF st.reqInProgress # NoReq
           THEN /\ streams' = [streams EXCEPT ![s].pc = "readresp"]
                /\ UNCHANGED bidiStreams
           ELSE /\ q # <<>>
                /\ streams' = [streams EXCEPT
                                 ![s].pc = "readresp",
                                 ![s].reqInProgress = QueueHead(q)]
                /\ bidiStreams' = [bidiStreams EXCEPT
                                     ![st.key].requests = QueueRest(q)]
        /\ UNCHANGED <<pcMain, packetsOpen, nPackets, timeout, cur,
                       pool, factoryClosed, log, storeErr, logged, fed>>

\* resp, err := http.ReadResponse(buf, req) and the branch taken.
InReadResponse(s) ==
    LET st == streams[s]
        res == ReadResponse(st.buf, st.eof)
    IN  /\ Alive
        /\ st.role = "in"
        /\ st.pc = "readresp"
        /\ ~st.inRead
        /\ streams' =
             IF res.r = "more" THEN [streams EXCEPT ![s].inRead = TRUE]
             ELSE IF res.r = "eof" THEN [streams EXCEPT ![s].pc = "done"]
             ELSE IF res.r = "err"
             THEN [streams EXCEPT ![s].pc = "discard",
                                  ![s].buf = Drop(@, res.n)]
             ELSE [streams EXCEPT ![s].pc = "body",
                                  ![s].buf = Drop(@, res.n),
                                  ![s].status = res.status]
        /\ UNCHANGED <<pcMain, packetsOpen, nPackets, timeout, cur,
                       pool, bidiStreams, factoryClosed, log, storeErr,
                       logged, fed>>

\* The sequence index ReceivedResponse is given.
RespSeq(st) == st.reqID

\* tcpreader.DiscardBytesToFirstError(resp.Body); resp.Body.Close();
\* h.storage.ReceivedResponse(h.bidikey, reqID, ...); reqID++;
\* h.reqInProgress = nil
InBody(s) ==
    LET st == streams[s]
        n == BodyLen(st.status, st.reqInProgress)
    IN  /\ Alive
        /\ st.role = "in"
        /\ st.pc = "body"
        /\ ~st.inRead
        /\ UNCHANGED <<pcMain, packetsOpen, nPackets, timeout, cur,
                       pool, bidiStreams, factoryClosed, logged, fed>>
        /\ IF Len(st.buf) < n /\ ~st.eof
           THEN /\ streams' = [streams EXCEPT ![s].inRead = TRUE]
                /\ UNCHANGED <<log, storeErr>>
           ELSE \E ok \in BOOLEAN :
                    /\ log' = Append(log, Note("ResponseReceived", st.key,
                                               RespSeq(st), st.reqInProgress,
                                               st.status, s))
                    /\ storeErr' = (storeErr \/ ~ok)
                    /\ streams' = [streams EXCEPT
                                     ![s].pc = "peek",
                                     ![s].buf = Drop(@, n),
                                     ![s].reqID = @ + 1,
                                     ![s].reqInProgress = NoReq,
                                     ![s].status = 0]

\* tcpreader.DiscardBytesToFirstError(buf), then the log line.
InDiscard(s) ==
    LET st == streams[s] IN
    /\ Alive
    /\ st.role = "in"
    /\ st.pc = "discard"
    /\ ~st.inRead
    /\ IF st.eof
       THEN /\ streams' = [streams EXCEPT ![s].buf = <<>>, ![s].pc = "peek"]
            /\ logged' = IF st.closed THEN logged ELSE logged \cup {s}
       ELSE /\ streams' = [streams EXCEPT ![s].buf = <<>>,
                                          ![s].inRead = TRUE]
            /\ UNCHANGED logged
    /\ UNCHANGED <<pcMain, packetsOpen, nPackets, timeout, cur, pool,
                   bidiStreams, factoryClosed, log, storeErr, fed>>

\* Every step of the program but the arrival of a packet.
Running ==
    \/ MainDeliver
    \/ MainWaitDone
    \/ MainPacketsClosed
    \/ MainCmdDone
    \/ MainCtrlC
    \/ MainTimeout
    \/ MainMarkClosed
    \/ MainFlushAll
    \/ MainStorageClose
    \/ MainReport
    \/ \E s \in DOMAIN streams : OutRead(s)
    \/ \E s \in DOMAIN streams : OutDiscard(s)
    \/ \E s \in DOMAIN streams : OutPush(s)
    \/ \E s \in DOMAIN streams : OutSent(s)
    \/ \E s \in DOMAIN streams : InPeek(s)
    \/ \E s \in DOMAIN streams : InGetReq(s)
    \/ \E s \in DOMAIN streams : InReadResponse(s)
    \/ \E s \in DOMAIN streams : InBody(s)
    \/ \E s \in DOMAIN streams : InDiscard(s)

Next == MainPacket \/ Running

Spec == Init /\ [][Next]_vars

(***************************************************************************)
(* The program on a capture that also holds a connection between two ports *)
(* of one address and a segment whose TCP header length exceeds the        *)
(* packet's total length                                                   *)
(***************************************************************************)
NetLo == [src |-> 1, dst |-> 1]

AccountingMenu ==
    {p \in PacketMenu :
        p.id \in {"syn1", "syn1r", "req1", "rsp1", "bad1", "fin1"}}
    \cup { Pkt("lo1",  NetLo, Tcp1, TRUE, FALSE, <<>>),
           Pkt("lo1r", NetLo, Reverse(Tcp1), TRUE, FALSE, <<>>),
           [Pkt("odd1", NetAB, Tcp1, FALSE, FALSE, <<>>)
                EXCEPT !.dataOffset = 15] }

MainPacketAccounting == Feed(AccountingMenu)

NextAccounting == MainPacketAccounting \/ Running

SpecAccounting == Init /\ [][NextAccounting]_vars

(***************************************************************************)
(* Properties                                                              *)
(***************************************************************************)
IsPrefix(s, t) == Len(s) <= Len(t) /\ s = SubSeq(t, 1, Len(s))

\* The storage calls of operation op for identity k, in order.
Calls(op, k) ==
    LET Is(e) == e.op = op /\ e.key = k IN SelectSeq(log, Is)

\* The storage calls of operation op issued by the reader of stream s.
CallsBy(op, s) ==
    LET Is(e) == e.op = op /\ e.by = s IN SelectSeq(log, Is)

Outs == {s \in DOMAIN streams : streams[s].role = "out"}

Ins == {s \in DOMAIN streams : streams[s].role = "in"}

AllReadersDone == \A s \in DOMAIN streams : streams[s].pc = "done"

\* C1: for every connection identity the k-th ResponseReceived call carries
\* sequence index k and was parsed against the k-th request pushed onto the
\* connection's queue.
PipeliningCorrect ==
    \A k \in DOMAIN bidiStreams :
        LET rr == Calls("ResponseReceived", k)
            pushed == bidiStreams[k].pushed
        IN  \A i \in 1..Len(rr) :
                /\ rr[i].n = i - 1
                /\ i <= Len(pushed)
                /\ rr[i].req = pushed[i]

\* The lifecycle, request and response calls made so far (the byte-count
\* calls left out), each as <<operation, index, request method, status>>.
Events ==
    LET Is(e) == e.op \notin {"IncomingPayload", "OutgoingPayload"}
        l == SelectSeq(log, Is)
    IN  [i \in 1..Len(l) |-> <<l[i].op, l[i].n, l[i].req.m, l[i].status>>]

\* One connection, captured from its handshake on: SYN, SYN-ACK, two
\* pipelined requests in one segment, their two responses in one segment.
ScenarioWithHandshake == <<"syn1", "syn1r", "req1", "rsp2">>

\* The same connection captured from its first data segment on.
ScenarioDataOnly == <<"req1", "rsp2">>

ExpectedEvents ==
    << <<"OpenConnection", 0, "nil", 0>>,
       <<"RequestSent", 0, "GET", 0>>,
       <<"RequestSent", 1, "HEAD", 0>>,
       <<"ResponseReceived", 0, "GET", 200>>,
       <<"ResponseReceived", 1, "HEAD", 200>>,
       <<"CloseConnection", 0, "nil", 0>> >>

\* a is b with some elements left out, the order kept.
RECURSIVE IsSubsequence(_, _)
IsSubsequence(a, b) ==
    IF a = <<>> THEN TRUE
    ELSE IF b = <<>> THEN FALSE
    ELSE IF a[1] = b[1] THEN IsSubsequence(Tail(a), Tail(b))
    ELSE IsSubsequence(a, Tail(b))

\* While the capture is being fed (it may be cut short by a shutdown) the
\* calls made are among the expected ones and in their order; once it was
\* fed whole and the readers have ended, they are all of them.
OrderedFor(capture) ==
    /\ IsPrefix(fed, capture) => IsSubsequence(Events, ExpectedEvents)
    /\ (fed = capture /\ AllReadersDone) => Events = ExpectedEvents

DrainTerminatesReaders == pcMain = "exited" => AllReadersDone

\* C4: when the process has ended, every outbound reader has notified
\* CloseConnection exactly once.
EveryOutboundClosed ==
    pcMain = "exited" =>
        \A s \in Outs : Len(CallsBy("CloseConnection", s)) = 1

\* C5: while the Driver waits inside the reassembler for a reader to take
\* its bytes, some task of the program can still take a step: no blocked
\* reader stalls the packet loop and the other connections with it.
DriverNeverStalled ==
    pcMain \in {"deliver", "waitdone"} => ENABLED Next

\* The well-formed requests among the tokens b, resuming after each token
\* that is none.
RECURSIVE Requests(_)
Requests(b) ==
    IF b = <<>> THEN 0
    ELSE IF b[1] \in {"G", "H"} THEN 1 + Requests(Tail(b))
    ELSE IF b[1] = "g" /\ Len(b) >= 2 /\ b[2] = "e"
         THEN 1 + Requests(Drop(b, 2))
    ELSE Requests(Tail(b))

\* The capture brought a response segment and, later, the malformed one.
MalformedAfterResponse ==
    \E i, j \in 1..Len(fed) :
        i < j /\ fed[i] \in {"rsp1", "rsp2"} /\ fed[j] = "bad1"

\* C6: on a connection whose first request/response pair was reported and
\* whose outbound stream then carried malformed bytes, the reader goes on
\* parsing: when it has ended, every well-formed request of the stream,
\* also the one after the malformed bytes, has been reported.
MalformedDoesNotAbort ==
    \A s \in Outs :
        (/\ streams[s].pc = "done"
         /\ fed[1] = "req1"
         /\ MalformedAfterResponse
         /\ Calls("ResponseReceived", streams[s].key) # <<>>)
        => Len(CallsBy("RequestSent", s)) = Requests(streams[s].got)

\* C7: no error returned by the storage collaborator ends the program.
StorageErrorNeverFatal == pcMain # "panic"

\* C8: for every identity OpenConnection is notified at most once, at most
\* one inbound stream is ever attached, and the attached inbound stream is
\* the direction opposite to the outbound one.
AttachedExactlyOnce ==
    \A k \in DOMAIN bidiStreams :
        /\ Len(Calls("OpenConnection", k)) <= 1
        /\ Cardinality({s \in Ins : streams[s].key = k}) <= 1
        /\ bidiStreams[k].in # 0 =>
             /\ Len(Calls("OpenConnection", k)) = 1
             /\ streams[bidiStreams[k].in].net
                    = Reverse(streams[bidiStreams[k].out].net)
             /\ streams[bidiStreams[k].in].tcp
                    = Reverse(streams[bidiStreams[k].out].tcp)

\* C9: the two directions of a connection get the same identity and are
\* found under one registry entry, whichever direction was seen first.
IdentityDirectionIndependent ==
    \A s, t \in DOMAIN streams :
        (/\ streams[s].net = Reverse(streams[t].net)
         /\ streams[s].tcp = Reverse(streams[t].tcp))
        => /\ streams[s].key = streams[t].key
           /\ streams[s].key \in DOMAIN bidiStreams
           /\ bidiStreams[streams[s].key].out \in DOMAIN streams
           /\ streams[bidiStreams[streams[s].key].out].key = streams[t].key

\* Both directions of one connection were seen, the server's first.
WitnessBothDirectionsReversed ==
    /\ Len(streams) >= 2
    /\ streams[1].net = Reverse(NetAB)
    /\ streams[2].net = NetAB
    /\ streams[2].tcp = Reverse(streams[1].tcp)
    /\ bidiStreams[streams[1].key].in = 2

NotesBy(s) == LET Is(e) == e.by = s IN SelectSeq(log, Is)

FloodMenu ==
    {p \in PacketMenu : p.id \in {"req1", "rsp1", "bad1", "fin1"}}
    \cup { Pkt("flood", NetAB, Tcp1, FALSE, FALSE,
               [i \in 1..QueueCap |-> "G"]) }

MainPacketFlood == Feed(FloodMenu)

NextFlood == MainPacketFlood \/ Running

SpecFlood == Init /\ [][NextFlood]_vars

\* The packet of a byte-count call.
PacketOf(id) == CHOOSE p \in PacketMenu \cup AccountingMenu : p.id = id

\* The byte-count calls made so far, in order.
PayloadNotes ==
    LET Is(e) == e.op \in {"IncomingPayload", "OutgoingPayload"}
    IN  SelectSeq(log, Is)

\* C12: byte-count calls are made only for identities with both directions
\* attached, at most one per packet and in the packets' order, and two
\* packets of opposite directions of one connection are never attributed
\* to the same direction.
PacketAccounting ==
    LET notes == PayloadNotes IN
    /\ \A i \in 1..Len(notes) : ~NotEstablished(notes[i].key)
    /\ IsSubsequence([i \in 1..Len(notes) |-> notes[i].pkt], fed)
    /\ \A i, j \in 1..Len(notes) :
          LET p == PacketOf(notes[i].pkt)
              q == PacketOf(notes[j].pkt)
          IN  (p.net = Reverse(q.net) /\ p.tcp = Reverse(q.tcp))
              => notes[i].op # notes[j].op

\* The outbound reader of stream s can take no step.
OutBlocked(s) ==
    ~ENABLED (OutRead(s) \/ OutDiscard(s) \/ OutPush(s) \/ OutSent(s))

\* C13: a connection's queue never holds more than its capacity of 100
\* requests; an outbound reader that has parsed a request and is about to
\* push it is blocked, and so parses nothing further, exactly while the
\* queue is full.
BoundedQueue ==
    /\ \A k \in DOMAIN bidiStreams : Len(bidiStreams[k].requests) <= 100
    /\ \A s \in Outs :
          (Alive /\ streams[s].pc = "push") =>
              (OutBlocked(s)
                 <=> Len(bidiStreams[streams[s].key].requests) = 100)

\* The queue was filled, the inbound reader took a request off it, the
\* outbound reader's next push went through and filled it again, and the
\* reader is now blocked with a further parsed request.
WitnessQueueFull ==
    \E s \in Outs :
        /\ Alive
        /\ streams[s].pc = "push"
        /\ Len(bidiStreams[streams[s].key].requests) = QueueCap
        /\ Len(bidiStreams[streams[s].key].pushed) = QueueCap + 1
        /\ OutBlocked(s)

\* The set of (operation, identity, index or byte count, request, status)
\* tuples reported to storage so far.
Reported ==
    {<<log[i].op, log[i].key, log[i].n, log[i].req.m, log[i].status>> :
        i \in 1..Len(log)}

\* What the run of ScenarioWithHandshake reports in which both readers
\* reach their end before the process does: the six calls of
\* ExpectedEvents and the byte counts of the two data segments.
ScenarioReport ==
    LET k == Key(NetAB, Tcp1) IN
    {<<ExpectedEvents[i][1], k, ExpectedEvents[i][2], ExpectedEvents[i][3],
       ExpectedEvents[i][4]>> : i \in 1..Len(ExpectedEvents)}
    \cup {<<"OutgoingPayload", k, 20, "nil", 0>>,
          <<"IncomingPayload", k, 30, "nil", 0>>}

ReplayReferenceRun ==
    /\ pcMain = "exited"
    /\ fed = ScenarioWithHandshake
    /\ Reported = ScenarioReport

\* main is inside its capture loop.
InLoop == pcMain \in {"select", "deliver", "waitdone"}

\* The Driver's phase: 0 Capturing, 1 Draining (the timer was started; it
\* lasts until FlushAll has returned), 2 Flushed, 3 ReportedAndExit.  A
\* panic ends the program in the phase it occurs in.
Phase ==
    IF pcMain = "exited" THEN 3
    ELSE IF pcMain \in {"storageClose", "report"} THEN 2
    ELSE IF timeout = "armed" THEN 1
    ELSE 0

\* What holds of the phases in every state.
PhaseState ==
    /\ (~InLoop /\ pcMain # "panic") => timeout = "armed"
    /\ factoryClosed <=> pcMain \in {"flush", "storageClose", "report",
                                     "exited"}
    /\ factoryClosed =>
          \A s \in Attached \cap DOMAIN streams : streams[s].closed
    /\ pcMain \in {"storageClose", "report", "exited"} =>
          /\ pool = {}
          /\ \A s \in DOMAIN streams : streams[s].eof

\* What holds of every step of the Driver.
PhaseStep ==
    /\ Phase' \in {Phase, Phase + 1}
    /\ (Phase = 0 /\ Phase' = 1) =>
          /\ pcMain = "select" /\ pcMain' = "select"
          /\ UNCHANGED <<nPackets, cur, pool, streams, bidiStreams,
                         factoryClosed, log, storeErr, logged, fed>>
    /\ (InLoop /\ ~InLoop' /\ pcMain' # "panic") =>
          /\ pcMain = "select" /\ timeout = "armed"
          /\ pcMain' = "markclosed"
    /\ ~InLoop => ~InLoop'
    /\ (pcMain = "markclosed" /\ pcMain' # pcMain) => pcMain' = "flush"
    /\ (pcMain = "flush" /\ pcMain' # pcMain) => pcMain' = "storageClose"
    /\ (pcMain = "storageClose" /\ pcMain' # pcMain) => pcMain' = "report"
    /\ (pcMain = "report" /\ pcMain' # pcMain) => pcMain' = "exited"
    /\ pcMain \in {"exited", "panic"} => UNCHANGED vars

\* C15: the Driver passes through Capturing, Draining, Flushed and
\* ReportedAndExit in this order, one phase at a time and never backwards;
\* Draining begins with a step of the loop that only starts the timer; the
\* loop is left only from its select with the timer started; the
\* registered streams are marked closed before FlushAll, FlushAll empties
\* the assembler before storage is closed, storage is closed before the
\* report, and the report step, after which nothing happens, is taken at
\* most once.
DriverPhases == [](PhaseState) /\ [][PhaseStep]_vars

\* The Driver went through all its phases with streams registered.
WitnessDriverPhases ==
    /\ pcMain = "exited"
    /\ fed # <<>>
    /\ \E s \in DOMAIN streams : streams[s].closed /\ streams[s].eof

\* C16: for every connection the RequestSent calls carry the indices
\* 0, 1, 2, ... in the order they are made, and so do the ResponseReceived
\* calls (a malformed message in between leaves no gap); there are never
\* more ResponseReceived calls than requests pushed onto the queue.
SequenceLockstep ==
    \A k \in DOMAIN bidiStreams :
        LET rs == Calls("RequestSent", k)
            rr == Calls("ResponseReceived", k)
        IN  /\ \A i \in 1..Len(rs) : rs[i].n = i - 1
            /\ \A i \in 1..Len(rr) : rr[i].n = i - 1
            /\ Len(rr) <= Len(bidiStreams[k].pushed)

\* The inbound reader of stream s holds a request.
Holds(s) == streams[s].reqInProgress # NoReq

\* Every request pushed onto the queue of identity k is still queued, or
\* held by an inbound reader, or was released by one ResponseReceived call.
RequestsConserved(k) ==
    LET readers == {s \in Ins : streams[s].key = k}
        RECURSIVE Taken(_)
        Taken(S) ==
            IF S = {} THEN 0
            ELSE LET s == CHOOSE x \in S : TRUE
                 IN  Len(CallsBy("ResponseReceived", s))
                       + (IF Holds(s) THEN 1 ELSE 0)
                       + Taken(S \ {s})
    IN  Len(bidiStreams[k].pushed)
          = Len(bidiStreams[k].requests) + Taken(readers)

\* What every step does to the queue and the held request of the inbound
\* reader of stream s.
DequeueStep(s) ==
    LET k == streams[s].key
        rr == log'[Len(log')]
    IN  /\ (streams'[s].reqInProgress # streams[s].reqInProgress
              /\ ~Holds(s)) =>
              /\ streams[s].buf # <<>>
              /\ bidiStreams[k].requests # <<>>
              /\ streams'[s].reqInProgress = Head(bidiStreams[k].requests)
              /\ bidiStreams'[k].requests = Tail(bidiStreams[k].requests)
        /\ (streams'[s].reqInProgress # streams[s].reqInProgress
              /\ Holds(s)) =>
              /\ streams'[s].reqInProgress = NoReq
              /\ Len(log') = Len(log) + 1
              /\ rr.op = "ResponseReceived" /\ rr.by = s
              /\ rr.req = streams[s].reqInProgress
        /\ (streams[s].pc = "peek" /\ streams'[s].pc = "done") =>
              /\ streams[s].buf = <<>> /\ streams[s].eof
              /\ UNCHANGED bidiStreams
        /\ (streams[s].pc = "readresp" /\ streams'[s].pc = "discard") =>
              /\ Holds(s)
              /\ streams'[s].reqInProgress = streams[s].reqInProgress

\* A request leaves the queue of identity k only into the hands of an
\* inbound reader.
QueueStep(k) ==
    Len(bidiStreams'[k].requests) < Len(bidiStreams[k].requests) =>
        \E s \in Ins :
            /\ streams[s].key = k
            /\ ~Holds(s)
            /\ streams'[s].reqInProgress = Head(bidiStreams[k].requests)

\* C17: an inbound reader takes a request off the queue only while it
\* holds none and has a byte of input; at clean end-of-input it ends
\* without touching the queue; a held request is released only by the
\* ResponseReceived call made for it, a malformed response leaves it held;
\* so every request taken is paired with at most one response.
DequeueDiscipline ==
    /\ [](\A k \in DOMAIN bidiStreams : RequestsConserved(k))
    /\ [][/\ \A s \in Ins : DequeueStep(s)
          /\ \A k \in DOMAIN bidiStreams : QueueStep(k)]_vars

\* An inbound reader met a malformed response and still holds the request
\* it took for it; another request of the connection waits on the queue.
WitnessHeldAfterMalformed ==
    \E s \in Ins :
        /\ streams[s].pc = "discard"
        /\ Holds(s)
        /\ bidiStreams[streams[s].key].requests # <<>>

\* C18: every byte count reported to storage is the packet's total length
\* minus 4 times its IHL minus 4 times its data offset, a number between
\* 0 and the total length.
PayloadWithinPacket ==
    \A i \in 1..Len(PayloadNotes) :
        LET p == PacketOf(PayloadNotes[i].pkt)
            n == PayloadNotes[i].n
        IN  /\ n = p.length - 4 * p.ihl - 4 * p.dataOffset
            /\ 0 <= n /\ n <= p.length

\* C19: a ResponseReceived call with index i for a connection is made only
\* after the RequestSent call with index i for that connection.
ResponseAfterRequest ==
    \A j \in 1..Len(log) :
        log[j].op = "ResponseReceived" =>
            \E i \in 1..(j - 1) :
                /\ log[i].op = "RequestSent"
                /\ log[i].key = log[j].key
                /\ log[i].n = log[j].n

\* The second response of a pipelined pair was reported, after its request.
WitnessSecondResponseReported ==
    \E i, j \in 1..Len(log) :
        /\ i < j
        /\ log[i].op = "RequestSent" /\ log[i].n = 1
        /\ log[j].op = "ResponseReceived" /\ log[j].n = 1
        /\ log[i].key = log[j].key

\* C20: once main has called storage.Close no storage call is made any
\* more: no step taken while main is between storage.Close and the end of
\* the process adds a call.
NoNotificationAfterClose == [][pcMain = "report" => log' = log]_vars
====
